---- MODULE Spec2Model ----
(***************************************************************************)
(* Carnister (src/src/main.rs): a playlist is turned into a list of Songs. *)
(* Each video is normalised to (artist, title), looked up at MusicBrainz,  *)
(* auto-accepted or deferred to a review pass, audited in a paginated      *)
(* browser, sorted by release year and saved.                              *)
(*                                                                         *)
(* Strings are TLA+ strings; a character is a string of length one.  The   *)
(* typographic apostrophe U+2019 that get_music_braiz_results replaces is  *)
(* written "~" (TLA+ strings are ASCII); like U+2019 it orders after every *)
(* other character of the alphabet.  The unit separator U+001F of the song *)
(* list file is written "^"; like U+001F it orders before every other      *)
(* character and is escaped as a control character.                        *)
(***************************************************************************)
EXTENDS Integers, Sequences, FiniteSets, TLC

\* ------------------------------------------------------------------ bounds
\* Longest recordings array the lookup service returns in the resolver runs.
MaxCands == 2
\* Longest playlist.
MaxFeed == 2
\* Review menus shown after which a re-query is no longer answered by a failure.
MaxMenus == 3
\* Largest number of elements per page the user widens the table to.
MaxPageSize == 20
\* Largest page number reached by paging forward over an empty list.
MaxPage == 1
\* Actions taken in the menus of selected songs before the user only leaves them.
MaxEdits == 1
\* The longest song list loaded from a file.
MaxLoaded == 21
\* The most pieces a generated raw title is made of.
MaxPieces == 4
\* The most lines of a song list file that is parsed.
MaxLines == 3

\* ----------------------------------------------------------- Rust results
Ok(v) == [tag |-> "Ok", val |-> v]
Err == [tag |-> "Err", val |-> <<>>]
\* A panic (unwrap on Err/None, index out of bounds): the process aborts.
Panic == [tag |-> "Panic", val |-> <<>>]

None == <<>>
Some(v) == <<v>>

I32Max == 2147483647
I32Min == (-2147483647) - 1

\* ---------------------------------------------------------------- strings
\* char::from(31), the unit separator between the fields of a line of the
\* song list file.
US == "^"

\* The characters of the model's strings, in ascending byte order.
Alphabet == "^ \"&'()+,-0123456789ABCDEFGHIJKLMNOPQRSTUVWXYZ[\\]abcdefghijklmnopqrstuvwxyz|~"

CharAt(s, i) == SubSeq(s, i, i)

CharCode(c) == CHOOSE i \in 1..Len(Alphabet) : CharAt(Alphabet, i) = c

\* Ordering of str (Ord for String): byte-wise lexicographic.
RECURSIVE StrLess(_, _)
StrLess(a, b) ==
    IF b = "" THEN FALSE
    ELSE IF a = "" THEN TRUE
    ELSE IF Head(a) = Head(b) THEN StrLess(Tail(a), Tail(b))
    ELSE CharCode(Head(a)) < CharCode(Head(b))

\* str::find: the index (1-based) of the first occurrence of pat, 0 if none.
StrFind(s, pat) ==
    LET hits == {i \in 1..(Len(s) - Len(pat) + 1) : SubSeq(s, i, i + Len(pat) - 1) = pat}
    IN IF hits = {} THEN 0 ELSE CHOOSE i \in hits : \A j \in hits : i <= j

StrContains(s, pat) == StrFind(s, pat) # 0

\* str::split_once: None, or Some of the text before and after the first pat.
split_once(s, pat) ==
    LET i == StrFind(s, pat)
    IN IF i = 0 THEN None
       ELSE Some(<<SubSeq(s, 1, i - 1), SubSeq(s, i + Len(pat), Len(s))>>)

\* str::replace: every non-overlapping occurrence of from, left to right.
RECURSIVE StrReplace(_, _, _)
StrReplace(s, from, to) ==
    LET i == StrFind(s, from)
    IN IF i = 0 THEN s
       ELSE SubSeq(s, 1, i - 1) \o to \o StrReplace(SubSeq(s, i + Len(from), Len(s)), from, to)

IsDigit(c) == c \in {"0", "1", "2", "3", "4", "5", "6", "7", "8", "9"}

DigitVal(c) == CharCode(c) - CharCode("0")

\* The checked accumulation of i32::from_str: <<fits, value>>, the digits
\* added to a non-negative number or subtracted from a non-positive one.
RECURSIVE ParseDigits(_, _, _)
ParseDigits(s, acc, neg) ==
    IF s = "" THEN <<TRUE, acc>>
    ELSE LET d == DigitVal(Head(s))
             lim == IF neg /\ d > 0 THEN (I32Max - (d - 1)) \div 10
                    ELSE IF neg THEN I32Max \div 10
                    ELSE (I32Max - d) \div 10
         IN IF neg
            THEN IF -acc > lim THEN <<FALSE, 0>>
                 ELSE ParseDigits(Tail(s), acc * 10 - d, neg)
            ELSE IF acc > lim THEN <<FALSE, 0>>
                 ELSE ParseDigits(Tail(s), acc * 10 + d, neg)

\* str::parse::<i32>: an optional sign, then at least one digit, within i32.
parse_i32(s) ==
    LET signed == s # "" /\ Head(s) \in {"+", "-"}
        neg == s # "" /\ Head(s) = "-"
        digits == IF signed THEN Tail(s) ELSE s
    IN IF digits = "" \/ \E i \in 1..Len(digits) : ~IsDigit(CharAt(digits, i))
       THEN Err
       ELSE LET r == ParseDigits(digits, 0, neg)
            IN IF r[1] THEN Ok(r[2]) ELSE Err

\* ------------------------------------------------------------ JSON values
\* serde_json::Value as far as the resolver reads it: null, a string or a
\* number, with s its text.
JNull == [kind |-> "null", s |-> ""]
JStr(s) == [kind |-> "string", s |-> s]
JNum(s) == [kind |-> "number", s |-> s]

is_null(v) == v.kind = "null"

\* Value::as_str().unwrap_or("")
as_str_or_empty(v) == IF v.kind = "string" THEN v.s ELSE ""

\* The text of a JSON string between its quotes: a backslash is put before
\* every backslash and every double quote, and the control character U+001F
\* is written \u001f.
json_escape(s) ==
    StrReplace(StrReplace(StrReplace(s, "\\", "\\\\"), "\"", "\\\""), US, "\\u001f")

\* Value::to_string(): the JSON text, a string escaped and in its quotes.
json_to_string(v) ==
    IF v.kind = "string" THEN "\"" \o json_escape(v.s) \o "\""
    ELSE IF v.kind = "null" THEN "null" ELSE v.s

\* str::trim_matches(c): without the c at its start and at its end.
RECURSIVE trim_matches(_, _)
trim_matches(s, c) ==
    IF s # "" /\ Head(s) = c THEN trim_matches(Tail(s), c)
    ELSE IF s # "" /\ CharAt(s, Len(s)) = c THEN trim_matches(SubSeq(s, 1, Len(s) - 1), c)
    ELSE s

\* video[..][..].to_string().trim_matches('"'): the JSON text of a string
\* field of a playlist item, without the quotes at its ends.
video_text(field) == trim_matches(json_to_string(JStr(field)), "\"")

\* --------------------------------------------------- the recording lookup
\* One HTTP exchange with a web service: the status the service answers with
\* and, of the body, whether it has an "error" field and its "recordings".
\* A recording: [first_release_date, artist_credit (names), title, disambiguation].
Response(status, has_error, recordings) ==
    [status |-> status, has_error |-> has_error, recordings |-> recordings]

Recording(date, names, title, disambiguation) ==
    [first_release_date |-> date, artist_credit |-> names, title |-> title,
     disambiguation |-> disambiguation]

\* StatusCode::is_success
is_success(status) == status >= 200 /\ status <= 299

\* receive_json: Err for a non-success status or a body with an error field.
receive_json(response) ==
    IF ~is_success(response.status) THEN Err
    ELSE IF response.has_error THEN Err
    ELSE Ok(response)

\* A faulty parse_date: a date that does not parse counts as year 0.
parse_date_lenient(raw_date) ==
    LET sp == split_once(raw_date, "-")
        y == IF sp # None THEN parse_i32(sp[1][1]) ELSE parse_i32(raw_date)
    IN IF y.tag = "Err" THEN Ok(0) ELSE y

\* The year of a release date: the text before the first "-", or all of it.
parse_date(raw_date) ==
    LET sp == split_once(raw_date, "-")
    IN IF sp # None THEN parse_i32(sp[1][1]) ELSE parse_i32(raw_date)

\* artists.iter().fold("", |a, b| a + ", " + b)
RECURSIVE fold_artists(_, _)
fold_artists(acc, names) ==
    IF names = <<>> THEN acc
    ELSE fold_artists(acc \o ", " \o Head(names), Tail(names))

\* The title a recording is listed with.  String::split_off(2) panics on a
\* string shorter than 2 (no credited artist).
detected_title(json, result) ==
    LET artists == [i \in 1..Len(result.artist_credit) |->
                        as_str_or_empty(result.artist_credit[i])]
        folded == fold_artists("", artists)
    IN IF Len(folded) < 2 THEN Panic
       ELSE Ok(StrReplace(SubSeq(folded, 3, Len(folded)) \o " - "
                            \o as_str_or_empty(json.recordings[1].title),
                          "~", "'"))

disambiguation_of(result) ==
    IF ~is_null(result.disambiguation)
    THEN Some(json_to_string(result.disambiguation)) ELSE None

\* Whether the loop skips a recording because of its release date field.
skip_null_date(result) == is_null(result.first_release_date)

\* The loop over json["recordings"], from recording i on: the matches pushed,
\* or a panic.
RECURSIVE collect_results(_, _, _)
collect_results(json, i, results) ==
    IF i > Len(json.recordings) THEN [panic |-> FALSE, list |-> results]
    ELSE LET result == json.recordings[i]
         IN IF skip_null_date(result) THEN collect_results(json, i + 1, results)
            ELSE LET date == parse_date(as_str_or_empty(result.first_release_date))
                 IN IF date.tag = "Err" THEN collect_results(json, i + 1, results)
                    ELSE LET t == detected_title(json, result)
                         IN IF t.tag = "Panic" THEN [panic |-> TRUE, list |-> results]
                            ELSE collect_results(json, i + 1,
                                     Append(results,
                                            <<date.val, t.val, disambiguation_of(result)>>))

\* Ord of Option<String>: None first.
OptionLess(a, b) ==
    \/ a = None /\ b # None
    \/ a # None /\ b # None /\ StrLess(a[1], b[1])

\* Ord of (i32, String, Option<String>): lexicographic.
MatchLess(a, b) ==
    \/ a[1] < b[1]
    \/ a[1] = b[1] /\ StrLess(a[2], b[2])
    \/ a[1] = b[1] /\ a[2] = b[2] /\ OptionLess(a[3], b[3])

RECURSIVE InsertMatch(_, _)
InsertMatch(sorted, x) ==
    IF sorted = <<>> THEN <<x>>
    ELSE IF MatchLess(x, Head(sorted)) THEN <<x>> \o sorted
    ELSE <<Head(sorted)>> \o InsertMatch(Tail(sorted), x)

RECURSIVE SortMatches(_)
SortMatches(results) ==
    IF results = <<>> THEN <<>>
    ELSE InsertMatch(SortMatches(SubSeq(results, 1, Len(results) - 1)),
                     results[Len(results)])

\* A faulty sort_results: the matches stay in the order of the response.
sort_results_skipped(results) == results

\* results.sort()
sort_results(results) == SortMatches(results)

\* get_music_braiz_results, given the service's answer to its request and
\* whether info records are logged: Ok(matches), Err, or a panic.  The
\* arguments of info!("Found: ..") are evaluated only when the record is
\* logged: results[0] of an empty list panics then, and otherwise the empty
\* list is returned.
get_music_braiz_results(response, info) ==
    LET got == receive_json(response)
    IN IF got.tag = "Err" THEN Panic
       ELSE LET json == got.val
            IN IF Len(json.recordings) = 0 THEN Err
               ELSE LET c == collect_results(json, 1, <<>>)
                    IN IF c.panic THEN Panic
                       ELSE IF Len(c.list) = 0 /\ info THEN Panic
                       ELSE Ok(sort_results(c.list))

\* ---------------------------------------------------------- the normaliser
IsSpace(c) == c = " "

\* str::trim
RECURSIVE TrimStart(_)
TrimStart(s) == IF s # "" /\ IsSpace(Head(s)) THEN TrimStart(Tail(s)) ELSE s

RECURSIVE TrimEnd(_)
TrimEnd(s) ==
    IF s # "" /\ IsSpace(CharAt(s, Len(s))) THEN TrimEnd(SubSeq(s, 1, Len(s) - 1)) ELSE s

Trim(s) == TrimEnd(TrimStart(s))

LowerChar(c) ==
    LET i == StrFind("ABCDEFGHIJKLMNOPQRSTUVWXYZ", c)
    IN IF i = 0 THEN c ELSE CharAt("abcdefghijklmnopqrstuvwxyz", i)

\* str::to_lowercase
RECURSIVE to_lowercase(_)
to_lowercase(s) == IF s = "" THEN "" ELSE LowerChar(Head(s)) \o to_lowercase(Tail(s))

\* bracket_re.replace_all(input, ""), bracket_re = \[.*?\]: every span from a
\* "[" to the first "]" after it is removed.
RECURSIVE remove_brackets(_)
remove_brackets(s) ==
    LET i == StrFind(s, "[")
        rest == SubSeq(s, i + 1, Len(s))
        j == StrFind(rest, "]")
    IN IF i = 0 \/ j = 0 THEN s
       ELSE SubSeq(s, 1, i - 1) \o remove_brackets(SubSeq(rest, j + 1, Len(rest)))

\* The closure of remix_re.replace_all: what a (...) span is replaced by.
keep_or_drop(span) ==
    LET content == to_lowercase(span)
    IN IF StrContains(content, "remix") \/ StrContains(content, "edit")
          \/ StrContains(content, "vip")
       THEN span ELSE ""

\* remix_re.replace_all(temp, closure), remix_re = \([^)]*\)
RECURSIVE replace_parens(_)
replace_parens(s) ==
    LET i == StrFind(s, "(")
        rest == SubSeq(s, i + 1, Len(s))
        j == StrFind(rest, ")")
    IN IF i = 0 \/ j = 0 THEN s
       ELSE SubSeq(s, 1, i - 1) \o keep_or_drop(SubSeq(s, i, i + j))
            \o replace_parens(SubSeq(rest, j + 1, Len(rest)))

\* other_re.replace_all(temp, ""), other_re = \|.*
remove_from_bar(s) ==
    LET i == StrFind(s, "|") IN IF i = 0 THEN s ELSE SubSeq(s, 1, i - 1)

clean_title(input) ==
    Trim(StrReplace(remove_from_bar(replace_parens(remove_brackets(input))), "\"", ""))

\* temp.find("-").or(temp.find("|")), then String::split_off(index): the
\* text from that index on.
clean_artist(input) ==
    LET temp == Trim(remove_brackets(input))
        dash == StrFind(temp, "-")
        bar == StrFind(temp, "|")
        index == IF dash # 0 THEN dash ELSE bar
    IN IF index # 0 THEN Trim(SubSeq(temp, index, Len(temp))) ELSE Trim(temp)

\* str::split(" - ").collect()
RECURSIVE split(_, _)
split(s, pat) ==
    LET i == StrFind(s, pat)
    IN IF i = 0 THEN <<s>>
       ELSE <<SubSeq(s, 1, i - 1)>> \o split(SubSeq(s, i + Len(pat), Len(s)), pat)

\* The artist and title a video is queried with.
normalize(raw_title, upload_channel) ==
    IF ~StrContains(raw_title, " - ")
    THEN [artist |-> clean_artist(StrReplace(upload_channel, " - Topic", "")),
          title |-> clean_title(raw_title)]
    ELSE LET split_title == split(raw_title, " - ")
         IN [artist |-> clean_artist(split_title[1]),
             title |-> clean_title(split_title[2])]

\* The upload year of a video: raw_upload_date up to its first "-", parsed.
\* Both unwraps panic.
upload_year(raw_upload_date) ==
    LET i == StrFind(raw_upload_date, "-")
    IN IF i = 0 THEN Panic
       ELSE LET y == parse_i32(SubSeq(raw_upload_date, 1, i - 1))
            IN IF y.tag = "Err" THEN Panic ELSE y

\* ------------------------------------------------------------------- songs
Song(artist, title, release_year, youtube_year, video_id, raw_title, detected) ==
    [artist |-> artist, title |-> title, release_year |-> release_year,
     youtube_year |-> youtube_year, video_id |-> video_id, raw_title |-> raw_title,
     detected_title |-> detected]

\* A faulty skipped_song: the raw title is kept as the detected title.
skipped_song_titled(artist, title, upload_date, id, raw_title) ==
    Song(artist, title, upload_date, upload_date, id, raw_title, Some(raw_title))

\* The Song pushed to skipped when the lookup of a video returns Err.
skipped_song(artist, title, upload_date, id, raw_title) ==
    Song(artist, title, upload_date, upload_date, id, raw_title, None)

\* The Song pushed to songs when the lookup succeeds: the first match.
accepted_song(artist, title, results, upload_date, id, raw_title) ==
    Song(artist, title, results[1][1], upload_date, id, raw_title, Some(results[1][2]))

\* custom_query, given what get_music_braiz_results returned and the number
\* entered at the list of matches: the song as it is left, with Ok, Err or
\* a panic.
custom_query(song, res, input) ==
    IF res.tag = "Panic" THEN [tag |-> "Panic", song |-> song]
       ELSE IF res.tag = "Err" THEN [tag |-> "Err", song |-> song]
       ELSE IF input = Len(res.val) + 1 THEN [tag |-> "Err", song |-> song]
       \* results[input as usize - 1] out of bounds
       ELSE IF input < 1 \/ input > Len(res.val) THEN [tag |-> "Panic", song |-> song]
       ELSE [tag |-> "Ok",
             song |-> [song EXCEPT !.release_year = res.val[input][1],
                                   !.detected_title = Some(res.val[input][2])]]

\* A faulty input_num: any line that parses is returned, in range or not.
RECURSIVE input_num_unchecked(_, _, _)
input_num_unchecked(range_min, range_max, lines) ==
    IF lines = <<>> THEN [tag |-> "Pending", val |-> 0, reads |-> 0]
    ELSE LET i == parse_i32(Head(lines))
         IN IF i.tag = "Ok"
            THEN [tag |-> "Ok", val |-> i.val, reads |-> 1]
            ELSE LET r == input_num_unchecked(range_min, range_max, Tail(lines))
                 IN [r EXCEPT !.reads = r.reads + 1]

\* input_num on the lines typed: each line is read after a prompt, and the
\* first that parses to an i32 in [range_min, range_max] is returned.  With
\* no such line the loop is still prompting (Pending).
RECURSIVE input_num(_, _, _)
input_num(range_min, range_max, lines) ==
    IF lines = <<>> THEN [tag |-> "Pending", val |-> 0, reads |-> 0]
    ELSE LET i == parse_i32(Head(lines))
         IN IF i.tag = "Ok" /\ i.val >= range_min /\ i.val <= range_max
            THEN [tag |-> "Ok", val |-> i.val, reads |-> 1]
            ELSE LET r == input_num(range_min, range_max, Tail(lines))
                 IN [r EXCEPT !.reads = r.reads + 1]

\* The number of matches custom_query lists before Back (0: none, or no
\* list at all).
listed(res) == IF res.tag = "Ok" THEN Len(res.val) ELSE 0

\* A faulty sort_by_release_year: the songs stay in the order they are in.
sort_by_release_year_skipped(list) == list

\* songs.sort_by(|a, b| i32::cmp(&a.release_year, &b.release_year)): stable.
RECURSIVE InsertByYear(_, _)
InsertByYear(sorted, x) ==
    IF sorted = <<>> THEN <<x>>
    ELSE IF x.release_year < Head(sorted).release_year THEN <<x>> \o sorted
    ELSE <<Head(sorted)>> \o InsertByYear(Tail(sorted), x)

RECURSIVE sort_by_release_year(_)
sort_by_release_year(list) ==
    IF list = <<>> THEN <<>>
    ELSE InsertByYear(sort_by_release_year(SubSeq(list, 1, Len(list) - 1)),
                      list[Len(list)])

\* ---------------------------------------------------------- song list file
\* i32::to_string
RECURSIVE digits_of(_)
digits_of(n) ==
    IF n < 10 THEN CharAt("0123456789", n + 1)
    ELSE digits_of(n \div 10) \o CharAt("0123456789", (n % 10) + 1)

\* The digits of a negative number are taken without negating it: the
\* magnitude of i32::MIN is no i32.
i32_to_string(n) ==
    IF n >= 0 THEN digits_of(n)
    ELSE LET last == (10 - (n % 10)) % 10
             rest == 0 - ((n + last) \div 10)
         IN "-" \o (IF rest = 0 THEN "" ELSE digits_of(rest)) \o CharAt("0123456789", last + 1)

\* {:?} of a String, between its quotes: a backslash is put before every
\* backslash and every double quote, and the control character U+001F is
\* written \u{1f}.
escape_debug(s) ==
    StrReplace(StrReplace(StrReplace(s, "\\", "\\\\"), "\"", "\\\""), US, "\\u{1f}")

\* {:?} of an Option<String>: None, or Some("..") with the text escaped.
debug_option(o) ==
    IF o = None THEN "None"
    ELSE "Some(\"" \o escape_debug(o[1]) \o "\")"

\* Display for Song: the seven fields of a line of a song list file.
display_song(song) ==
    song.artist \o US \o song.title \o US \o i32_to_string(song.release_year) \o US
      \o i32_to_string(song.youtube_year) \o US \o song.video_id \o US
      \o song.raw_title \o US \o debug_option(song.detected_title)

starts_with(s, pat) == Len(s) >= Len(pat) /\ SubSeq(s, 1, Len(pat)) = pat
ends_with(s, pat) == Len(s) >= Len(pat) /\ SubSeq(s, Len(s) - Len(pat) + 1, Len(s)) = pat

\* The bytes of a character in UTF-8: "~" is written for U+2019, of three
\* bytes; the other characters are ASCII.
char_bytes(c) == IF c = "~" THEN 3 ELSE 1

\* str::len: the length in bytes.
RECURSIVE byte_len(_)
byte_len(s) == IF s = "" THEN 0 ELSE char_bytes(Head(s)) + byte_len(Tail(s))

\* str::is_char_boundary: the byte index is where a character starts, or the
\* end of the string.
is_char_boundary(s, index) ==
    \E k \in 0..Len(s) : byte_len(SubSeq(s, 1, k)) = index

\* &s[begin..end], in bytes: the slice, or a panic when begin is after end or
\* one of them is not a character boundary of s.
byte_slice(s, begin, end) ==
    IF begin > end \/ ~is_char_boundary(s, begin) \/ ~is_char_boundary(s, end)
    THEN Panic
    ELSE LET first == CHOOSE k \in 0..Len(s) : byte_len(SubSeq(s, 1, k)) = begin
             last == CHOOSE k \in 0..Len(s) : byte_len(SubSeq(s, 1, k)) = end
         IN Ok(SubSeq(s, first + 1, last))

\* parse_option_string: the text between `Some("` and `")`, or None.  The slice
\* &input[6..input.len() - 2] is taken by bytes and can panic.
parse_option_string(input) ==
    IF starts_with(input, "Some(") /\ ends_with(input, ")")
    THEN LET inner == byte_slice(input, 6, byte_len(input) - 2)
         IN IF inner.tag = "Panic" THEN Panic ELSE Ok(Some(inner.val))
    ELSE Ok(None)

\* One line of the file: skipped unless it has seven parts, else the Song of
\* its parts; the unwrap of a year that does not parse panics.
load_line(line) ==
    LET parts == split(line, US)
    IN IF Len(parts) # 7 THEN [tag |-> "Skip", val |-> <<>>]
       ELSE LET release_year == parse_i32(parts[3])
                youtube_year == parse_i32(parts[4])
                detected == parse_option_string(parts[7])
            IN IF release_year.tag = "Err" \/ youtube_year.tag = "Err"
                  \/ detected.tag = "Panic"
               THEN Panic
               ELSE Ok(Song(parts[1], parts[2], release_year.val, youtube_year.val,
                            parts[5], parts[6], detected.val))

\* ------------------------------------------------------------ environment
\* The request delay of the ingestion loop, in ms.
Timeout == 1050

\* The answers of the lookup service in a session.
TwoMatches ==
    Response(200, FALSE,
             <<Recording(JStr("1999-05-01"), <<JStr("B")>>, JStr("Y"), JNull),
               Recording(JStr("1987"), <<JStr("A"), JStr("C")>>, JStr("X"), JStr("live"))>>)

SessionResponses ==
    { Response(503, FALSE, <<>>),
      Response(200, TRUE, <<>>),
      Response(200, FALSE, <<>>),
      Response(200, FALSE, <<Recording(JNull, <<JStr("A")>>, JStr("X"), JNull)>>),
      TwoMatches }

\* The playlist items fetch_videos returns: title, channel, publication date.
VideoKinds ==
    << [title |-> "Artist Name - Song Title (Radio Edit) [Official Video]",
        channel |-> "Uploads", published |-> "2015-06-01T10:00:00Z"],
       [title |-> "Cool Song [Lyrics]",
        channel |-> "SomeArtist - Topic", published |-> "2010-01-02T10:00:00Z"] >>

Video(i) ==
    LET k == ((i - 1) % Len(VideoKinds)) + 1
    IN [videoId |-> "v" \o CharAt("123456789", i), title |-> VideoKinds[k].title,
        videoOwnerChannelTitle |-> VideoKinds[k].channel,
        videoPublishedAt |-> VideoKinds[k].published]

\* The playlists: of every length up to MaxFeed.
Feeds == { [i \in 1..n |-> Video(i)] : n \in 0..MaxFeed }

\* The songs read from a song list file: one per line of seven parts, in the
\* order of the file, whatever it is.
LoadedSong(i) ==
    Song("Artist", "Title", 2000 + ((i * 7) % 5), 2010 + (i % 3),
         "f" \o CharAt("0123456789", (i \div 10) + 1) \o CharAt("0123456789", (i % 10) + 1),
         "Artist - Title", IF i % 2 = 0 THEN None ELSE Some("Artist - Title"))

LoadedLengths == {0, 1, MaxLoaded - 10, MaxLoaded}

\* A song of a line whose seventh part is Some("Untitled"): a detected title
\* that no lookup wrote.
UnlistedSong ==
    Song("Artist", "Title", 2001, 2011, "f99", "Artist - Title", Some("Untitled"))

LoadedLists ==
    { [i \in 1..n |-> LoadedSong(i)] : n \in LoadedLengths } \cup { <<UnlistedSong>> }

\* The lines of a song list file: lines written by Display for Song, an empty
\* line, a line cut short, a line with a part too many, and lines of seven
\* parts whose year or detected title is not as Display writes it.
FileLines ==
    { display_song(LoadedSong(1)),
      display_song(LoadedSong(2)),
      "",
      "Artist" \o US \o "Title" \o US \o "2001",
      display_song(LoadedSong(3)) \o US \o "extra",
      "Artist" \o US \o "Title" \o US \o "19x9" \o US \o "2011" \o US \o "f04" \o US
        \o "Artist - Title" \o US \o "None",
      "Artist" \o US \o "Title" \o US \o "2002" \o US \o "2012" \o US \o "f05" \o US
        \o "Artist - Title" \o US \o "Some()",
      "Artist" \o US \o "Title" \o US \o "2003" \o US \o "2013" \o US \o "f06" \o US
        \o "Artist - Title" \o US \o "Some(~~)" }

\* The song list files: of every length up to MaxLines.
Files == UNION { [1..n -> FileLines] : n \in 0..MaxLines }

\* What the user types as an artist or a title.
TextInputs == {"Edited"}

\* The lines the user types at a prompt of input_num, up to the one it
\* returns: at the review menu, at the menu of a selected song, at a year
\* prompt and at a list of n matches.
MenuLines ==
    {<<"1">>, <<"2">>, <<"3">>, <<"4">>, <<"5">>,
     <<"0", "1">>, <<"6", "4">>, <<"x", "5">>}

SongMenuLines ==
    {<<"1">>, <<"2">>, <<"3">>, <<"4">>, <<"5">>, <<"6">>,
     <<"0", "5">>, <<"7", "6">>}

YearLines == {<<"-5">>, <<"year", "2147483648", "1980">>}

ChoiceLines(n) ==
    {<<CharAt("123456789", k)>> : k \in 1..(n + 1)}
      \cup {<<"0", "1">>, <<CharAt("123456789", n + 2), CharAt("123456789", n + 1)>>}

\* The recordings of the resolver runs.
Candidates ==
    { Recording(JStr("1999-05-01"), <<JStr("B")>>, JStr("Y"), JNull),
      Recording(JStr("1987"), <<JStr("A"), JStr("C")>>, JStr("X"), JStr("live")),
      Recording(JStr("1999"), <<JStr("A")>>, JStr("Don~t"), JNull),
      Recording(JStr("1999"), <<JStr("A")>>, JStr("X"), JStr("live")),
      Recording(JNull, <<JStr("A")>>, JStr("X"), JNull),
      Recording(JStr("19x9-01"), <<JStr("B")>>, JStr("Y"), JNull),
      Recording(JNum("2001"), <<JStr("B")>>, JStr("X"), JNull),
      Recording(JStr("1987-12"), <<>>, JStr("Y"), JNull) }

RecordingLists ==
    UNION { [1..n -> Candidates] : n \in 0..MaxCands }

AllResponses ==
    { Response(st, er, recs) : st \in {200, 503}, er \in BOOLEAN, recs \in RecordingLists }

\* ------------------------------------------------------------------- state
VARIABLES
    pc,                \* where main is: ingest, review, load, browse, song_menu,
                       \* done (saved), exported, panic (aborted) or error
                       \* (returned Err)
    info_enabled,      \* whether the logger's filter (RUST_LOG, "info" when unset)
                       \* lets info records through
    videos,            \* the playlist fetched
    file,              \* the lines of the song list file selected
    pos,               \* the video or the line the loop of main is at
    songs,             \* Vec<Song> songs
    skipped,           \* Vec<Song> skipped
    action_for_all,    \* -1, or the action chosen for all remaining
    current,           \* the progress counter of the review menu
    total_skipped,     \* the total the review menu shows
    rev,               \* the element of skipped.iter_mut() under review
    page,              \* the browser's page
    elements_per_page, \* the browser's page size
    num,               \* the row number typed in the browser, NoRow when none is
    edits,             \* actions taken in the menus of selected songs
    waited,            \* ms slept since the last lookup request
    last_gap,          \* ms slept between the last two lookup requests
    last_response,     \* the service's answer to the last lookup request
    last_result,       \* what get_music_braiz_results made of it
    ev                 \* the terminal activity of the last ingestion or review step

vars == <<pc, info_enabled, videos, file, pos, songs, skipped, action_for_all, current, total_skipped,
          rev, page, elements_per_page, num, edits, waited, last_gap, last_response,
          last_result, ev>>

review_vars == <<action_for_all, current, total_skipped, rev>>
browser_vars == <<page, elements_per_page, num, edits>>
lookup_vars == <<waited, last_gap, last_response, last_result>>

NoCall == [tag |-> "None", val |-> <<>>]
NoResponse == Response(0, FALSE, <<>>)
\* last_gap before the second request.
NoGap == 0 - 1
\* num outside `Ok(num) => ..`.
NoRow == 0 - 1

\* A step's terminal activity: the number entered at the action menu (0:
\* none), the action menus and year prompts printed, the lines read, and how
\* the step's lookup ended ("": there was none).
Event(op, input, menus, year_prompts, reads, outcome) ==
    [op |-> op, input |-> input, menus |-> menus, year_prompts |-> year_prompts,
     reads |-> reads, outcome |-> outcome, year |-> None, rejected |-> 0]

\* The same with the year returned by the year prompt and the lines that
\* input_num read and did not return.
Typed(e, year, rejected) == [e EXCEPT !.year = year, !.rejected = rejected]

\* The gap recorded when a request is sent after sleeping `slept` ms.
gap_at_request(slept) == IF last_result.tag = "None" THEN NoGap ELSE slept

Init ==
    /\ pc = "ingest"
    /\ videos \in Feeds
    /\ info_enabled \in BOOLEAN
    /\ file = <<>>
    /\ pos = 1
    /\ songs = <<>>
    /\ skipped = <<>>
    /\ action_for_all = -1
    /\ current = 0
    /\ total_skipped = 0
    /\ rev = 1
    /\ page = 0
    /\ elements_per_page = 20
    /\ num = NoRow
    /\ edits = 0
    /\ waited = 0
    /\ last_gap = NoGap
    /\ last_response = NoResponse
    /\ last_result = NoCall
    /\ ev = Event("start", 0, 0, 0, 0, "")

\* --------------------------------------------------------------- ingestion
\* One iteration of the loop over the videos, the lookup service answering
\* with one of `responses`: the fields of the video are read, artist and
\* title derived, then sleep, lookup, and a push to songs or to skipped.
IngestFrom(responses) ==
    /\ pc = "ingest"
    /\ pos <= Len(videos)
    /\ \E response \in responses :
       \E video \in {videos[pos]} :
       \E id \in {video_text(video.videoId)} :
       \E raw_title \in {video_text(video.title)} :
       \E upload_date \in {upload_year(video_text(video.videoPublishedAt))} :
       \E n \in {normalize(raw_title, video_text(video.videoOwnerChannelTitle))} :
       \E res \in {get_music_braiz_results(response, info_enabled)} :
         LET slept == waited + Timeout
         IN IF upload_date.tag = "Panic"
            THEN /\ pc' = "panic"
                 /\ ev' = Event("ingest", 0, 0, 0, 0, "Panic")
                 /\ UNCHANGED <<pos, songs, skipped, lookup_vars>>
            ELSE /\ last_response' = response
                 /\ last_result' = res
                 /\ last_gap' = gap_at_request(slept)
                 /\ waited' = 0
                 /\ ev' = Event("ingest", 0, 0, 0, 0, res.tag)
                 /\ CASE res.tag = "Ok" /\ res.val # <<>> ->
                           /\ songs' = Append(songs,
                                  accepted_song(n.artist, n.title, res.val, upload_date.val,
                                                id, raw_title))
                           /\ pos' = pos + 1
                           /\ UNCHANGED <<pc, skipped>>
                      [] res.tag = "Err" ->
                           /\ skipped' = Append(skipped,
                                  skipped_song(n.artist, n.title, upload_date.val,
                                               id, raw_title))
                           /\ pos' = pos + 1
                           /\ UNCHANGED <<pc, songs>>
                      [] OTHER ->
                           /\ pc' = "panic"
                           /\ UNCHANGED <<pos, songs, skipped>>
    /\ UNCHANGED <<info_enabled, file, videos, review_vars, browser_vars>>

\* An iteration in a session of the lookup service.
Ingest == IngestFrom(SessionResponses)

\* The loop is over: the review pass starts.
StartReview ==
    /\ pc = "ingest"
    /\ pos > Len(videos)
    /\ pc' = "review"
    /\ action_for_all' = -1
    /\ current' = 0
    /\ total_skipped' = Len(skipped) + 1
    /\ rev' = 1
    /\ ev' = Event("start_review", 0, 0, 0, 0, "")
    /\ UNCHANGED <<info_enabled, file, videos, pos, songs, skipped, browser_vars, lookup_vars>>

\* ------------------------------------------------------------------ review
\* A faulty prompts_menu: the menu is printed whatever action_for_all is.
prompts_menu_always(afa) == TRUE

\* Whether the menu is printed and a number read.
prompts_menu(afa) == afa = -1

\* A faulty set_action_for_all: 4 and 5 set the other's action.
set_action_for_all_swapped(afa, input) ==
    IF input = 4 THEN 2 ELSE IF input = 5 THEN 1 ELSE afa

\* action_for_all after the number entered at the menu.
set_action_for_all(afa, input) ==
    IF input = 4 THEN 1 ELSE IF input = 5 THEN 2 ELSE afa

\* A faulty effective_input: 4 and 5 are not taken as 1 and 2.
effective_input_raw(afa, input) == input

\* A faulty effective_input: every action for all remaining asks for a year.
effective_input_manual(afa, input) == IF afa # -1 THEN 2 ELSE input

\* A faulty effective_input: every action for all remaining is action 1.
effective_input_fallback(afa, input) == IF afa # -1 THEN 1 ELSE input

\* The action matched on: the one chosen for all remaining, if there is one.
effective_input(afa, input) == IF afa # -1 THEN afa ELSE input

\* The lines typed at the menu: none when no menu is shown.
menu_inputs(afa) == IF prompts_menu(afa) THEN MenuLines ELSE {<<>>}

\* One iteration of the loop around the menu of a skipped song.
ReviewStep ==
    /\ pc = "review"
    /\ rev <= Len(skipped)
    /\ \E lines \in menu_inputs(action_for_all) :
         LET prompt == prompts_menu(action_for_all)
             typed == input_num(1, 5, lines)
             \* let mut input = 0; if action_for_all == -1 { input = input_num(1, 5) }
             read == IF prompt THEN typed.val ELSE 0
             afa == IF prompt THEN set_action_for_all(action_for_all, read)
                    ELSE action_for_all
             input == effective_input(afa, read)
             menus == IF prompt THEN 1 ELSE 0
             reads == IF prompt THEN typed.reads ELSE 0
             song == skipped[rev]
         IN /\ prompt => typed.tag = "Ok"
            /\ action_for_all' = afa
            /\ current' = IF prompt THEN current + 1 ELSE current
            /\ CASE input = 1 ->
                      /\ rev' = rev + 1
                      /\ ev' = Typed(Event("review", read, menus, 0, reads, ""),
                                     None, reads - menus)
                      /\ UNCHANGED <<pc, skipped, lookup_vars>>
                 [] input = 2 ->
                      \E year_lines \in YearLines :
                        LET year == input_num(I32Min, I32Max, year_lines)
                        IN /\ year.tag = "Ok"
                           /\ skipped' = [skipped EXCEPT ![rev].release_year = year.val]
                           /\ rev' = rev + 1
                           /\ ev' = Typed(Event("review", read, menus, 1,
                                                reads + year.reads, ""),
                                          Some(year.val),
                                          (reads - menus) + (year.reads - 1))
                           /\ UNCHANGED <<pc, lookup_vars>>
                 [] input = 3 ->
                      \E response \in SessionResponses :
                      \E res \in {get_music_braiz_results(response, info_enabled)} :
                      \E n \in {listed(res)} :
                      \E choice_lines \in (IF res.tag = "Ok" THEN ChoiceLines(n) ELSE {<<>>}) :
                      \E choice \in {input_num(1, n + 1, choice_lines)} :
                      \E q \in {custom_query(song, res, choice.val)} :
                        LET asked == res.tag = "Ok"
                        IN /\ asked => choice.tag = "Ok"
                           /\ q.tag = "Err" => current < MaxMenus
                           /\ last_response' = response
                           /\ last_result' = res
                           /\ last_gap' = gap_at_request(waited)
                           /\ waited' = 0
                           /\ ev' = Typed(Event("review", read, menus, 0,
                                                reads + 2 + choice.reads, q.tag),
                                          None,
                                          (reads - menus)
                                            + (IF asked THEN choice.reads - 1 ELSE 0))
                           /\ skipped' = [skipped EXCEPT ![rev] = q.song]
                           /\ rev' = IF q.tag = "Ok" THEN rev + 1 ELSE rev
                           /\ pc' = IF q.tag = "Panic" THEN "panic" ELSE pc
                 [] OTHER ->
                      /\ pc' = "error"
                      /\ ev' = Typed(Event("review", read, menus, 0, reads, ""),
                                     None, reads - menus)
                      /\ UNCHANGED <<skipped, rev, lookup_vars>>
    /\ UNCHANGED <<info_enabled, file, videos, pos, songs, total_skipped, browser_vars>>

\* A faulty merge_skipped: the skipped songs are dropped.
merge_skipped_dropped(list, other) == list

\* A faulty merge: the skipped songs are put in front.
merge_skipped_in_front(list, other) == other \o list

\* songs.append(&mut skipped)
merge_skipped(list, other) == list \o other

\* Every skipped song has its year: they join songs, the locals of the pass
\* go out of scope and the browser opens.
FinishReview ==
    /\ pc = "review"
    /\ rev > Len(skipped)
    /\ songs' = merge_skipped(songs, skipped)
    /\ skipped' = <<>>
    /\ action_for_all' = -1
    /\ current' = 0
    /\ total_skipped' = 0
    /\ rev' = 1
    /\ page' = 0
    /\ elements_per_page' = 20
    /\ num' = NoRow
    /\ edits' = 0
    /\ pc' = "browse"
    /\ ev' = Event("finish_review", 0, 0, 0, 0, "")
    /\ UNCHANGED <<info_enabled, file, videos, pos, lookup_vars>>

\* ----------------------------------------------------------------- browser
Min(a, b) == IF a < b THEN a ELSE b

\* f32::ceil(songs.len() as f32 / elements_per_page as f32) as u32
page_count_of(len, per_page) == (len + per_page - 1) \div per_page

\* displayed_songs_count: the rows of the page that hold a song.
displayed_songs_count(elements, p, per_page) ==
    Cardinality({i \in 0..(per_page - 1) : i + p * per_page < Len(elements)})

\* The row of a song is printed: a detected title is split at its first
\* " - " with split_once(" - ").unwrap(), which panics when it has none.
row_printed(song) ==
    song.detected_title = None \/ StrContains(song.detected_title[1], " - ")

\* draw_table prints the rows of the page and returns how many hold a song,
\* or panics at the row of a song that cannot be printed.
draw_table(elements, p, per_page) ==
    IF \A i \in 0..(per_page - 1) :
           i + p * per_page < Len(elements) => row_printed(elements[i + p * per_page + 1])
    THEN Ok(displayed_songs_count(elements, p, per_page))
    ELSE Panic

\* The iteration of the browser's loop ends in draw_table: the process aborts.
TablePanic ==
    /\ pc' = "panic"
    /\ num' = NoRow
    /\ UNCHANGED <<info_enabled, file, videos, pos, songs, skipped, review_vars, page, elements_per_page,
                   edits, lookup_vars, ev>>

\* The row numbers the user types in the page view: the first and the last
\* row of the page, the last row that holds a song, and their neighbours.
RowInputs(elements_displayed, per_page) ==
    {0, 1, elements_displayed, elements_displayed + 1, per_page, per_page + 1}

\* A faulty selected_index: the row is taken as an index of the first page.
selected_index_unpaged(n, p, per_page) == n

\* The index in songs (from 1) of row n of the page.
selected_index(n, p, per_page) == ((n - 1) + p * per_page) + 1

\* A faulty row_rejected: only a row below 1 is rejected.
row_rejected_low(n, elements_displayed, per_page) == n < 1

\* if num > min(elements_displayed, elements_per_page) || num < 1
row_rejected(n, elements_displayed, per_page) ==
    n > Min(elements_displayed, per_page) \/ n < 1

\* A number typed in the page view: out of range the page is shown again,
\* in range the menu of that song is shown.
BrowseSelect ==
    /\ pc = "browse"
    /\ \E drawn \in {draw_table(songs, page, elements_per_page)} :
         IF drawn.tag = "Panic"
         THEN TablePanic
         ELSE /\ \E elements_displayed \in {drawn.val} :
                 \E n \in RowInputs(elements_displayed, elements_per_page) :
                   /\ num' = n
                   /\ IF row_rejected(n, elements_displayed, elements_per_page)
                      THEN UNCHANGED pc
                      ELSE IF selected_index(n, page, elements_per_page) > Len(songs)
                      THEN pc' = "panic"
                      ELSE pc' = "song_menu"
              /\ UNCHANGED <<info_enabled, file, videos, pos, songs, skipped, review_vars, page, elements_per_page,
                             edits, lookup_vars, ev>>

\* One iteration of the loop around the menu of the selected song.
SongMenuStep ==
    /\ pc = "song_menu"
    /\ \E lines \in SongMenuLines :
         LET typed == input_num(1, 6, lines)
             action == typed.val
             at == selected_index(num, page, elements_per_page)
             selected == songs[at]
         IN /\ typed.tag = "Ok"
            /\ action # 6 => edits < MaxEdits
            /\ edits' = IF action # 6 THEN edits + 1 ELSE edits
            /\ CASE action = 1 ->
                      \E response \in SessionResponses :
                      \E res \in {get_music_braiz_results(response, info_enabled)} :
                      \E n \in {listed(res)} :
                      \E choice_lines \in (IF res.tag = "Ok" THEN ChoiceLines(n) ELSE {<<>>}) :
                      \E choice \in {input_num(1, n + 1, choice_lines)} :
                      \E q \in {custom_query(selected, res, choice.val)} :
                        /\ res.tag = "Ok" => choice.tag = "Ok"
                        /\ last_response' = response
                        /\ last_result' = res
                        /\ last_gap' = gap_at_request(waited)
                        /\ waited' = 0
                        /\ songs' = [songs EXCEPT ![at] = q.song]
                        /\ pc' = IF q.tag = "Panic" THEN "panic" ELSE pc
                        /\ UNCHANGED num
                 [] action = 2 ->
                      \E text \in TextInputs :
                        /\ songs' = [songs EXCEPT ![at].artist = text]
                        /\ UNCHANGED <<pc, num, lookup_vars>>
                 [] action = 3 ->
                      \E text \in TextInputs :
                        /\ songs' = [songs EXCEPT ![at].title = text]
                        /\ UNCHANGED <<pc, num, lookup_vars>>
                 [] action = 4 ->
                      \E year_lines \in YearLines :
                        LET year == input_num(I32Min, I32Max, year_lines)
                        IN /\ year.tag = "Ok"
                           /\ songs' = [songs EXCEPT ![at].release_year = year.val]
                           /\ UNCHANGED <<pc, num, lookup_vars>>
                 [] action = 5 ->
                      /\ songs' = [songs EXCEPT ![at].release_year = selected.youtube_year]
                      /\ UNCHANGED <<pc, num, lookup_vars>>
                 [] action = 6 ->
                      /\ pc' = "browse"
                      /\ num' = NoRow
                      /\ UNCHANGED <<songs, lookup_vars>>
                 [] OTHER ->
                      /\ pc' = "error"
                      /\ UNCHANGED <<songs, num, lookup_vars>>
    /\ UNCHANGED <<info_enabled, file, videos, pos, skipped, review_vars, page, elements_per_page, ev>>

\* "a": page.saturating_sub(1)
PagePrev ==
    /\ pc = "browse"
    /\ \E drawn \in {draw_table(songs, page, elements_per_page)} :
         IF drawn.tag = "Panic"
         THEN TablePanic
         ELSE /\ page' = IF page > 0 THEN page - 1 ELSE 0
              /\ num' = NoRow
              /\ UNCHANGED <<pc, info_enabled, file, videos, pos, songs, skipped, review_vars, elements_per_page,
                             edits, lookup_vars, ev>>

\* "d": if page < page_count - 1 { page += 1 }, in u32.  With page_count 0
\* the subtraction overflows: a panic where overflow checks are compiled in,
\* u32::MAX where they are not.
PageNext ==
    /\ pc = "browse"
    /\ \E drawn \in {draw_table(songs, page, elements_per_page)} :
         IF drawn.tag = "Panic"
         THEN TablePanic
         ELSE /\ \E overflow_checks \in BOOLEAN :
                   LET page_count == page_count_of(Len(songs), elements_per_page)
                   IN IF page_count = 0
                      THEN IF overflow_checks
                           THEN pc' = "panic" /\ page' = page
                           ELSE page < MaxPage /\ page' = page + 1 /\ pc' = pc
                      ELSE /\ page' = IF page < page_count - 1 THEN page + 1 ELSE page
                           /\ pc' = pc
              /\ num' = NoRow
              /\ UNCHANGED <<info_enabled, file, videos, pos, songs, skipped, review_vars, elements_per_page,
                             edits, lookup_vars, ev>>

\* "+": elements_per_page += 10
Widen ==
    /\ pc = "browse"
    /\ \E drawn \in {draw_table(songs, page, elements_per_page)} :
         IF drawn.tag = "Panic"
         THEN TablePanic
         ELSE /\ elements_per_page < MaxPageSize
              /\ elements_per_page' = elements_per_page + 10
              /\ num' = NoRow
              /\ UNCHANGED <<pc, info_enabled, file, videos, pos, songs, skipped, review_vars, page, edits,
                             lookup_vars, ev>>

\* "-": if elements_per_page > 10 { elements_per_page -= 10 }
Narrow ==
    /\ pc = "browse"
    /\ \E drawn \in {draw_table(songs, page, elements_per_page)} :
         IF drawn.tag = "Panic"
         THEN TablePanic
         ELSE /\ elements_per_page' = IF elements_per_page > 10 THEN elements_per_page - 10
                                      ELSE elements_per_page
              /\ num' = NoRow
              /\ UNCHANGED <<pc, info_enabled, file, videos, pos, songs, skipped, review_vars, page, edits,
                             lookup_vars, ev>>

\* "y": the loop breaks, the songs are sorted by release year and saved.
Finish ==
    /\ pc = "browse"
    /\ \E drawn \in {draw_table(songs, page, elements_per_page)} :
         IF drawn.tag = "Panic"
         THEN TablePanic
         ELSE /\ songs' = sort_by_release_year(songs)
              /\ pc' = "done"
              /\ num' = NoRow
              /\ UNCHANGED <<info_enabled, file, videos, pos, skipped, review_vars, page, elements_per_page, edits,
                             lookup_vars, ev>>

\* ------------------------------------------------------------ card export
\* The i32 operators of Rust: `/` and `%` truncate toward zero, so that the
\* remainder has the sign of the dividend.
i32_div(a, b) == IF a >= 0 THEN a \div b ELSE 0 - ((0 - a) \div b)
i32_rem(a, b) == IF a >= 0 THEN a % b ELSE 0 - ((0 - a) % b)

\* The number of entries of number_colors.
NumberColors == 10

\* `let n10 = (song.release_year % 100 / 10)` and `let n1 =
\* (song.release_year % 10)`, before the cast to usize.
n10(song) == i32_div(i32_rem(song.release_year, 100), 10)
n1(song) == i32_rem(song.release_year, 10)

\* number_colors[i as usize] is an element of the array: the cast of a
\* negative i32 gives an index of 2^64 - |i|, beyond any array.
color_indexed(i) == i >= 0 /\ i < NumberColors

\* create_card_front_svg_component returns the card of the song, or panics at
\* an index out of the bounds of number_colors.
card_rendered(song) == color_indexed(n10(song)) /\ color_indexed(n1(song))

\* The number of cards of a page.
CardsPerPage == 12

\* The loop `while !songs.is_empty()`: the songs are popped from the end, up
\* to 12 for a page, and the page's cards are rendered.  The result is the
\* songs left in the list when the loop ends (Ok) or aborts (Panic).
RECURSIVE export_cards(_)
export_cards(list) ==
    IF list = <<>> THEN Ok(<<>>)
    ELSE LET taken == Min(Len(list), CardsPerPage)
             rest == SubSeq(list, 1, Len(list) - taken)
             card_songs == SubSeq(list, Len(list) - taken + 1, Len(list))
         IN IF \A i \in 1..taken : card_rendered(card_songs[i])
            THEN export_cards(rest)
            ELSE [tag |-> "Panic", val |-> rest]

\* After the song list is saved, the cards are generated and written.
Export ==
    /\ pc = "done"
    /\ \E out \in {export_cards(songs)} :
         /\ songs' = out.val
         /\ pc' = IF out.tag = "Ok" THEN "exported" ELSE "panic"
    /\ UNCHANGED <<info_enabled, file, videos, pos, skipped, review_vars, browser_vars, lookup_vars, ev>>

Next ==
    \/ Ingest
    \/ StartReview
    \/ ReviewStep
    \/ FinishReview
    \/ BrowseSelect
    \/ SongMenuStep
    \/ PagePrev
    \/ PageNext
    \/ Widen
    \/ Narrow
    \/ Finish
    \/ Export

Spec == Init /\ [][Next]_vars

\* ---------------------------------------------- ingestion and review alone
\* The run up to the end of the review pass.
NextReview ==
    \/ Ingest
    \/ StartReview
    \/ ReviewStep
    \/ FinishReview

ReviewSpec == Init /\ [][NextReview]_vars

\* A step of the pass that decides the entry under review, and the step that
\* ends the pass.
Decide == pc = "review" /\ rev <= Len(skipped) /\ rev' = rev + 1
EndPass == pc = "review" /\ rev > Len(skipped) /\ pc' = "browse"

\* The review pass with a user who goes on answering: a decision that stays
\* possible again and again is made in the end (a menu is answered with a
\* deciding action sooner or later), and main goes on to the browser when no
\* entry is left.
FairReviewSpec == ReviewSpec /\ SF_rev(Decide) /\ WF_pc(EndPass)

\* ------------------------------------------------------ a loaded song list
\* The other branch of main: the songs are read from a file of song_lists
\* and the browser opens on them.
InitLoaded ==
    /\ pc = "browse"
    /\ songs \in LoadedLists
    /\ videos = <<>>
    /\ info_enabled \in BOOLEAN
    /\ file = <<>>
    /\ pos = 1
    /\ skipped = <<>>
    /\ action_for_all = -1
    /\ current = 0
    /\ total_skipped = 0
    /\ rev = 1
    /\ page = 0
    /\ elements_per_page = 20
    /\ num = NoRow
    /\ edits = 0
    /\ waited = 0
    /\ last_gap = NoGap
    /\ last_response = NoResponse
    /\ last_result = NoCall
    /\ ev = Event("start", 0, 0, 0, 0, "")

NextBrowser ==
    \/ BrowseSelect
    \/ SongMenuStep
    \/ PagePrev
    \/ PageNext
    \/ Widen
    \/ Narrow
    \/ Finish
    \/ Export

\* The browser on a loaded song list.
BrowserSpec == InitLoaded /\ [][NextBrowser]_vars

\* ------------------------------------------------- reading a song list file
\* The branch of main that reads the file selected, line by line.
InitLoad ==
    /\ pc = "load"
    /\ info_enabled \in BOOLEAN
    /\ file \in Files
    /\ videos = <<>>
    /\ pos = 1
    /\ songs = <<>>
    /\ skipped = <<>>
    /\ action_for_all = -1
    /\ current = 0
    /\ total_skipped = 0
    /\ rev = 1
    /\ page = 0
    /\ elements_per_page = 20
    /\ num = NoRow
    /\ edits = 0
    /\ waited = 0
    /\ last_gap = NoGap
    /\ last_response = NoResponse
    /\ last_result = NoCall
    /\ ev = Event("start", 0, 0, 0, 0, "")

\* One iteration of `for line in file.lines()`.
LoadLine ==
    /\ pc = "load"
    /\ pos <= Len(file)
    /\ \E loaded \in {load_line(file[pos])} :
         CASE loaded.tag = "Skip" ->
                /\ pos' = pos + 1
                /\ UNCHANGED <<pc, songs>>
           [] loaded.tag = "Ok" ->
                /\ songs' = Append(songs, loaded.val)
                /\ pos' = pos + 1
                /\ UNCHANGED pc
           [] OTHER ->
                /\ pc' = "panic"
                /\ UNCHANGED <<pos, songs>>
    /\ UNCHANGED <<info_enabled, file, videos, skipped, review_vars, browser_vars, lookup_vars, ev>>

\* The file is read: the browser opens on its songs.
FinishLoad ==
    /\ pc = "load"
    /\ pos > Len(file)
    /\ pc' = "browse"
    /\ page' = 0
    /\ elements_per_page' = 20
    /\ UNCHANGED <<info_enabled, file, videos, pos, songs, skipped, review_vars, num, edits,
                   lookup_vars, ev>>

NextLoad ==
    \/ LoadLine
    \/ FinishLoad

LoadSpec == InitLoad /\ [][NextLoad]_vars

\* main, whichever way the songs come: from a playlist or from a file.
InitMain == Init \/ InitLoaded

MainSpec == InitMain /\ [][Next]_vars

\* ----------------------------------------------- the normaliser on its own
\* The pieces raw titles are made of, and the raw titles of up to n pieces.
Pieces == {"[", "]", "(", ")", "|", "\"", " -", " ", "vip", "a"}

RECURSIVE PieceStrings(_)
PieceStrings(n) ==
    IF n = 0 THEN {""}
    ELSE LET shorter == PieceStrings(n - 1)
         IN shorter \cup {t \o piece : t \in shorter, piece \in Pieces}

\* Raw titles and channels as playlists have them.
TitleFixtures ==
    {"Artist Name - Song Title (Radio Edit) [Official Video]",
     "Cool Song [Lyrics]",
     "A - B - C",
     "Label-X - Song (Live) (DJ Y REMIX) | Out now",
     "[NCS] Art|ist - \"Song\" (Official Video)",
     "X -[HD] Y",
     "A - B - (vip)",
     "DJ X - Track (Club Remix) (Live)",
     "Band - Tune (Extended Edit) (HD) | Label",
     "One (VIP Mix) (feat. Z) [4K]"}

ChannelFixtures ==
    {"Uploads", "SomeArtist - Topic", "Label | Artist", "Foo-Bar [Official]", "A | B-C"}

NormalizerInputs ==
    {[title |-> t, channel |-> c] : t \in TitleFixtures, c \in ChannelFixtures}
      \cup {[title |-> t, channel |-> "SomeArtist - Topic"] : t \in PieceStrings(MaxPieces)}

\* The ingestion of a playlist of one video.
InitNormalizer ==
    /\ pc = "ingest"
    /\ \E input \in NormalizerInputs :
         videos = <<[videoId |-> "v1", title |-> input.title,
                     videoOwnerChannelTitle |-> input.channel,
                     videoPublishedAt |-> "2015-06-01T10:00:00Z"]>>
    /\ info_enabled \in BOOLEAN
    /\ file = <<>>
    /\ pos = 1
    /\ songs = <<>>
    /\ skipped = <<>>
    /\ action_for_all = -1
    /\ current = 0
    /\ total_skipped = 0
    /\ rev = 1
    /\ page = 0
    /\ elements_per_page = 20
    /\ num = NoRow
    /\ edits = 0
    /\ waited = 0
    /\ last_gap = NoGap
    /\ last_response = NoResponse
    /\ last_result = NoCall
    /\ ev = Event("start", 0, 0, 0, 0, "")

\* The answers of a lookup service that has no recording for any query.
NoRecordingResponses == {Response(200, FALSE, <<>>)}

\* The iteration of the loop for the video: its artist and title are derived
\* and, the lookup finding nothing, its Song is pushed to skipped.
Normalize ==
    /\ pos = 1
    /\ IngestFrom(NoRecordingResponses)

\* The Song of a video whose raw title is the title derived for `song`.
normalized_song(video, song) ==
    LET n == normalize(song.title, video_text(video.videoOwnerChannelTitle))
    IN skipped_song(n.artist, n.title, song.youtube_year, song.video_id, song.title)

\* The title derived is the raw title of a second derivation.
Renormalize ==
    /\ pc = "ingest"
    /\ pos = 2
    /\ Len(skipped) = 1
    /\ skipped' = Append(skipped, normalized_song(videos[1], skipped[1]))
    /\ pc' = "renormalized"
    /\ UNCHANGED <<info_enabled, file, videos, pos, songs, review_vars, browser_vars, lookup_vars, ev>>

NextNormalizer ==
    \/ Normalize
    \/ Renormalize

NormalizerSpec == InitNormalizer /\ [][NextNormalizer]_vars

\* ------------------------------------------------- the resolver on its own
\* The lookup applied to every answer of AllResponses.
InitResolver ==
    /\ pc = "resolver"
    /\ last_response \in AllResponses
    /\ last_result = NoCall
    /\ videos = <<>>
    /\ info_enabled \in BOOLEAN
    /\ file = <<>>
    /\ pos = 1
    /\ songs = <<>>
    /\ skipped = <<>>
    /\ action_for_all = -1
    /\ current = 0
    /\ total_skipped = 0
    /\ rev = 1
    /\ page = 0
    /\ elements_per_page = 20
    /\ num = NoRow
    /\ edits = 0
    /\ waited = 0
    /\ last_gap = NoGap
    /\ ev = Event("start", 0, 0, 0, 0, "")

Resolve ==
    /\ pc = "resolver"
    /\ last_result' = get_music_braiz_results(last_response, info_enabled)
    /\ pc' = "resolved"
    /\ UNCHANGED <<info_enabled, file, videos, pos, songs, skipped, review_vars, browser_vars, waited,
                   last_gap, last_response, ev>>

NextResolver == Resolve

ResolverSpec == InitResolver /\ [][NextResolver]_vars

\* ------------------------------------------------------------- properties
\* What the properties say of a response, stated without the resolver.

\* A transport failure: a non-success status or a body with an error field.
TransportFailure(response) ==
    response.status < 200 \/ response.status > 299 \/ response.has_error

\* The text of a release date that states its year.
YearText(date) ==
    LET i == StrFind(date, "-") IN IF i = 0 THEN date ELSE SubSeq(date, 1, i - 1)

IsNumber(t) == t # "" /\ \A i \in 1..Len(t) : IsDigit(CharAt(t, i))

RECURSIVE NumberValue(_)
NumberValue(t) ==
    IF t = "" THEN 0
    ELSE NumberValue(SubSeq(t, 1, Len(t) - 1)) * 10 + DigitVal(CharAt(t, Len(t)))

\* A recording with a usable release date: a string whose year is a number.
HasUsableDate(rec) ==
    /\ rec.first_release_date.kind = "string"
    /\ IsNumber(YearText(rec.first_release_date.s))

YearOf(rec) == NumberValue(YearText(rec.first_release_date.s))

RECURSIVE JoinNames(_)
JoinNames(names) ==
    IF names = <<>> THEN ""
    ELSE IF Len(names) = 1 THEN as_str_or_empty(names[1])
    ELSE as_str_or_empty(names[1]) \o ", " \o JoinNames(Tail(names))

\* The canonical title of a recording: its own artists, " - ", its own title
\* (apostrophes as the resolver writes them).
CanonicalTitle(rec) ==
    StrReplace(JoinNames(rec.artist_credit) \o " - " \o as_str_or_empty(rec.title),
               "~", "'")

Usable(response) ==
    {i \in 1..Len(response.recordings) : HasUsableDate(response.recordings[i])}

\* The playlist entry the last ingestion step was about.
LastIngested == videos[IF pc = "panic" THEN pos ELSE pos - 1]

\* C1: once the browser is left after ingestion and review, songs holds
\* exactly one Song for every playlist entry (the same video id, none lost,
\* none twice), each with a release year.  (A run whose lookups all succeed
\* or return Err is the only kind to get there.)
C1_AcceptedSetComplete ==
    pc \in {"browse", "song_menu", "done"} =>
        /\ Len(songs) = Len(videos)
        /\ \A i \in 1..Len(videos) :
             Cardinality({j \in 1..Len(songs) : songs[j].video_id = videos[i].videoId}) = 1
        /\ \A j \in 1..Len(songs) : songs[j].release_year \in I32Min..I32Max

\* A run of two entries, one resolved and one not, has left the browser.
C1_Witness ==
    /\ pc = "done"
    /\ Len(songs) = 2
    /\ \E j, k \in 1..Len(songs) :
         songs[j].detected_title = None /\ songs[k].detected_title # None

\* C2: once action_for_all is 1 (always the upload year), a step of the
\* review pass decides the song under review with no menu, no year prompt
\* and no line read, and the song's release_year is its youtube_year.
C2_BulkFallbackSilent ==
    [][(pc = "review" /\ action_for_all = 1 /\ rev <= Len(skipped)) =>
          /\ rev' = rev + 1
          /\ ev'.menus = 0
          /\ ev'.year_prompts = 0
          /\ ev'.reads = 0
          /\ skipped'[rev].release_year = skipped'[rev].youtube_year]_vars

\* A song has been decided under action_for_all = 1, after the one the
\* action was chosen at.
C2_Witness ==
    /\ pc = "review"
    /\ action_for_all = 1
    /\ rev = 3
    /\ ev.op = "review"
    /\ ev.input = 0

\* C3: a lookup answered by a non-success status or an error field fails
\* that lookup alone: the run goes on, and in the ingestion loop the entry
\* is pushed to skipped.
C3_TransportFailureContained ==
    (last_result.tag # "None" /\ TransportFailure(last_response)) =>
        /\ pc # "panic"
        /\ ev.op = "ingest" =>
             /\ skipped # <<>>
             /\ skipped[Len(skipped)].video_id = LastIngested.videoId

\* C4: a lookup whose response has no recording with a usable release date
\* (none at all, or only null and unparseable dates) returns Err, and in the
\* ingestion loop the entry is pushed to skipped.
C4_NotFoundIsErr ==
    (last_result.tag # "None" /\ ~TransportFailure(last_response)
       /\ Usable(last_response) = {}) =>
        /\ last_result.tag = "Err"
        /\ ev.op = "ingest" =>
             /\ skipped # <<>>
             /\ skipped[Len(skipped)].video_id = LastIngested.videoId

\* C5: the matches of a successful lookup are in ascending order of year,
\* and matches of one year in ascending order of title.
C5_ResultsSorted ==
    last_result.tag = "Ok" =>
        \A i \in 1..(Len(last_result.val) - 1) :
            LET a == last_result.val[i]
                b == last_result.val[i + 1]
            IN /\ a[1] <= b[1]
               /\ a[1] = b[1] => ~StrLess(b[2], a[2])

\* Two recordings of one year and different artists came in descending
\* order of title and were returned.
C5_Witness ==
    /\ pc = "resolved"
    /\ last_result.tag = "Ok"
    /\ Len(last_result.val) = 2
    /\ last_result.val[1][1] = last_result.val[2][1]
    /\ last_result.val[1][2] # last_result.val[2][2]
    /\ StrLess(JoinNames(last_response.recordings[2].artist_credit),
               JoinNames(last_response.recordings[1].artist_credit))

\* C6: the matches of a successful lookup are exactly the recordings with a
\* usable release date: as many, with the same years; a recording whose
\* date is null is not among them.
C6_OnlyUsableDates ==
    last_result.tag = "Ok" =>
        /\ Len(last_result.val) = Cardinality(Usable(last_response))
        /\ \A i \in Usable(last_response) :
             LET y == YearOf(last_response.recordings[i])
             IN Cardinality({k \in 1..Len(last_result.val) : last_result.val[k][1] = y})
                = Cardinality({j \in Usable(last_response) :
                                 YearOf(last_response.recordings[j]) = y})

\* A response with a null date and a usable one was resolved.
C6_Witness ==
    /\ pc = "resolved"
    /\ last_result.tag = "Ok"
    /\ \E i \in 1..Len(last_response.recordings) :
         is_null(last_response.recordings[i].first_release_date)

\* C7: every match of a successful lookup has the year and the canonical
\* title of one recording of the response: that recording's artists joined
\* with ", ", then " - ", then that recording's title.
C7_OwnTitle ==
    last_result.tag = "Ok" =>
        \A k \in 1..Len(last_result.val) :
            \E i \in Usable(last_response) :
                /\ last_result.val[k][1] = YearOf(last_response.recordings[i])
                /\ last_result.val[k][2] = CanonicalTitle(last_response.recordings[i])

\* C8: between two consecutive lookup requests the program has slept the
\* request delay.  (Every request is awaited in the step that sends it, so
\* no two are in flight.)
C8_RequestsSpaced ==
    last_gap # NoGap => last_gap >= Timeout

\* C9: with no action for all remaining, a step that chose action 3 and
\* did not adopt a match leaves the run at the menu of the same song, and
\* the song as it was.
C9_FailedQueryRedisplays ==
    [][(pc = "review" /\ action_for_all = -1 /\ ev'.op = "review" /\ ev'.input = 3
          /\ ev'.outcome # "Ok") =>
          /\ pc' = "review"
          /\ rev' = rev
          /\ action_for_all' = -1
          /\ skipped' = skipped]_vars

\* C10: action_for_all is -1 when the pass starts; during the pass it
\* changes only from -1, by the user entering 4 (to 1) or 5 (to 2) at the
\* menu, and so at most once.
C10_BulkModeSticky ==
    /\ action_for_all = -1
    /\ [][(pc' = "review" /\ action_for_all' # action_for_all) =>
            /\ pc = "review"
            /\ action_for_all = -1
            /\ ev'.input \in {4, 5}
            /\ action_for_all' = IF ev'.input = 4 THEN 1 ELSE 2]_vars

\* A song has been decided under action_for_all = 2, chosen at an earlier song.
C10_Witness ==
    /\ pc = "review"
    /\ action_for_all = 2
    /\ rev = 3
    /\ ev.op = "review"
    /\ ev.input = 0

\* C11: the song at whose menu the user enters 4 is decided in that step,
\* with release_year its youtube_year and nothing read after the menu; the
\* song at whose menu the user enters 5 is decided in that step by one year
\* prompt, with release_year the year entered there.
C11_BulkChoiceDecidesEntry ==
    [][(pc = "review" /\ action_for_all = -1 /\ rev <= Len(skipped)
          /\ ev'.op = "review") =>
          /\ ev'.input = 4 =>
               /\ rev' = rev + 1
               /\ ev'.year_prompts = 0
               /\ ev'.reads = 1 + ev'.rejected
               /\ skipped'[rev].release_year = skipped[rev].youtube_year
          /\ ev'.input = 5 =>
               /\ rev' = rev + 1
               /\ ev'.year_prompts = 1
               /\ ev'.reads = 2 + ev'.rejected
               /\ ev'.year # None
               /\ skipped'[rev].release_year = ev'.year[1]]_vars

\* The user entered 5 at the menu of the first song and then a year other
\* than the song's upload year.
C11_Witness ==
    /\ pc = "review"
    /\ ev.op = "review"
    /\ ev.input = 5
    /\ rev = 2
    /\ skipped[1].release_year = 1980
    /\ skipped[1].youtube_year # 1980

\* C12: once action_for_all is 2 (always ask for the year), a step of the
\* review pass decides the song under review with no menu and one year
\* prompt, and the song's release_year is the year entered there.
C12_BulkManualAsksOnce ==
    [][(pc = "review" /\ action_for_all = 2 /\ rev <= Len(skipped)) =>
          /\ rev' = rev + 1
          /\ ev'.menus = 0
          /\ ev'.year_prompts = 1
          /\ ev'.reads = 1 + ev'.rejected
          /\ ev'.year # None
          /\ skipped'[rev].release_year = ev'.year[1]]_vars

\* The second song was decided under action_for_all = 2 by a year entered
\* after two rejected lines.
C12_Witness ==
    /\ pc = "review"
    /\ action_for_all = 2
    /\ rev = 3
    /\ ev.input = 0
    /\ ev.year = Some(1980)
    /\ ev.rejected = 2
    /\ skipped[2].release_year = 1980

\* C13: a line that is not a number of the prompt's range is read and the
\* prompt repeated, with no effect of its own: the review menu acts on a
\* number in 1..5 and the year prompt on an i32, what the step does is what
\* the accepted numbers ask for, and neither the review menu nor the menu of
\* a selected song reaches its "unknown input" exit.
C13_RejectedInputReprompts ==
    [][/\ pc' # "error"
       /\ (pc = "review" /\ rev <= Len(skipped) /\ ev'.op = "review") =>
            /\ ev'.menus = 1 => ev'.input \in 1..5
            /\ ev'.year # None => ev'.year[1] \in I32Min..I32Max
            /\ ev'.rejected >= 0
            /\ ev'.reads >= ev'.rejected + ev'.menus + ev'.year_prompts
            /\ (ev'.menus = 1 /\ ev'.input \in {1, 4}) =>
                 skipped' = skipped /\ rev' = rev + 1
            /\ (ev'.menus = 1 /\ ev'.input \in {2, 5}) =>
                 /\ skipped' = [skipped EXCEPT ![rev].release_year = ev'.year[1]]
                 /\ rev' = rev + 1
            /\ (ev'.menus = 1 /\ ev'.input = 3 /\ ev'.outcome = "Err") =>
                 skipped' = skipped /\ rev' = rev]_vars

\* A step of the review read a line out of the menu's range, then 5, then
\* two lines that are no i32, then a year.
C13_Witness ==
    /\ pc = "review"
    /\ ev.op = "review"
    /\ ev.input = 5
    /\ ev.rejected = 3
    /\ ev.reads = 5
    /\ ev.year = Some(1980)

\* C14: a row number typed in the page view that is not in
\* 1..min(elements_per_page, rows of the page that hold a song), such as 0
\* or elements_per_page + 1, opens no song menu and changes neither page,
\* elements_per_page nor any song: the same page is shown again.
C14_RowOutOfRangeIgnored ==
    [][(pc = "browse" /\ num' # NoRow
          /\ (num' < 1
                \/ num' > elements_per_page
                \/ num' > displayed_songs_count(songs, page, elements_per_page))) =>
          /\ pc' = "browse"
          /\ page' = page
          /\ elements_per_page' = elements_per_page
          /\ songs' = songs]_vars

\* On a full page the user typed the row after the last one.
C14_Witness ==
    /\ pc = "browse"
    /\ num = elements_per_page + 1
    /\ displayed_songs_count(songs, page, elements_per_page) = elements_per_page

\* C15: in the browser on a non-empty song list the page is at least 0 and
\* at most page_count - 1, page_count being ceil(songs / elements_per_page)
\* for the elements_per_page of the moment.
C15_PageInRange ==
    (pc \in {"browse", "song_menu"} /\ Len(songs) > 0) =>
        /\ page >= 0
        /\ page * elements_per_page < Len(songs)

\* C16: when the browser is left, the songs handed to saving and export are
\* in non-decreasing order of release_year, whatever was edited in the
\* review and the browser and whichever way the songs came.
C16_SortedAtExit ==
    pc = "done" =>
        \A i \in 1..(Len(songs) - 1) : songs[i].release_year <= songs[i + 1].release_year

\* The browser was left after a year was entered for a song, and the songs
\* are not in the order they came in.
C16_Witness ==
    /\ pc = "done"
    /\ edits > 0
    /\ \E i, j \in 1..Len(songs) :
         /\ i < j
         /\ songs[i].release_year = 1980
         /\ StrLess(songs[j].video_id, songs[i].video_id)

\* What the properties say of the normaliser, stated without it.

\* The text before and after the first occurrence of pat in s.
BeforeFirst(s, pat) == SubSeq(s, 1, StrFind(s, pat) - 1)
AfterFirst(s, pat) == SubSeq(s, StrFind(s, pat) + Len(pat), Len(s))

\* The video of the specification of the normaliser is ingested.
Normalized == pc = "ingest" /\ pos = 2 /\ Len(skipped) = 1

\* The text the artist of a song is cleaned from, for the channel it is on.
ArtistSource(raw_title, upload_channel) ==
    IF StrContains(raw_title, " - ") THEN BeforeFirst(raw_title, " - ")
    ELSE StrReplace(upload_channel, " - Topic", "")

\* Artist cleaning as described: without its [...] spans, the text after the
\* first "-" or "|", whichever comes first, trimmed.
ArtistAfterSeparator(text) ==
    LET r == remove_brackets(text)
        dash == StrFind(r, "-")
        bar == StrFind(r, "|")
        first == IF dash = 0 THEN bar ELSE IF bar = 0 THEN dash ELSE Min(dash, bar)
    IN IF first = 0 THEN Trim(r) ELSE Trim(SubSeq(r, first + 1, Len(r)))

\* The (...) spans of a text, from the left: each from a "(" to the next ")".
RECURSIVE ParenSpans(_)
ParenSpans(s) ==
    LET i == StrFind(s, "(")
        rest == SubSeq(s, i + 1, Len(s))
        j == StrFind(rest, ")")
    IN IF i = 0 \/ j = 0 THEN <<>>
       ELSE <<SubSeq(s, i, i + j)>> \o ParenSpans(SubSeq(rest, j + 1, Len(rest)))

HasKeyword(span) ==
    \E word \in {"remix", "edit", "vip"} : StrContains(to_lowercase(span), word)

KeywordSpans(s) == SelectSeq(ParenSpans(s), HasKeyword)

\* C17: a raw title with " - " is split at the first " - " only: the artist
\* is cleaned from the text before it and the title from all of the text
\* after it, later " - " included.
C17_SplitAtFirstSeparator ==
    (Normalized /\ StrContains(skipped[1].raw_title, " - ")) =>
        /\ skipped[1].artist = clean_artist(BeforeFirst(skipped[1].raw_title, " - "))
        /\ skipped[1].title = clean_title(AfterFirst(skipped[1].raw_title, " - "))

\* C18: the artist is, of its source without the [...] spans, the text after
\* the first "-" or "|" (whichever comes first), trimmed; all of it, trimmed,
\* when there is neither.
C18_ArtistAfterSeparator ==
    Normalized =>
        skipped[1].artist
          = ArtistAfterSeparator(ArtistSource(skipped[1].raw_title,
                                              videos[1].videoOwnerChannelTitle))

\* The text the title of a song is cleaned from as described: the text
\* after the first " - " of the raw title, or all of it when there is none.
TitleSource(raw_title) ==
    IF StrContains(raw_title, " - ") THEN AfterFirst(raw_title, " - ") ELSE raw_title

\* The keyword spans of a text that title cleaning as described leaves: those
\* of the text without its [...] spans that end before the first "|", where
\* the title is cut, each without its quotes.
SpansToKeep(text) ==
    LET r == remove_brackets(text)
        head == IF StrContains(r, "|") THEN BeforeFirst(r, "|") ELSE r
        kept == KeywordSpans(head)
    IN [k \in 1..Len(kept) |-> StrReplace(kept[k], "\"", "")]

\* C19: the two fixtures give the artists and titles stated; no title has a
\* [...] span left, every (...) span left in a title has remix, edit or vip
\* in its lowercased text, and every such span of the text after the first
\* " - " of the raw title (of the raw title when it has none) that is not
\* cut off with a "|" is left in the title.
C19_FixturesAndSpans ==
    Normalized =>
        LET raw == skipped[1].raw_title
            channel == videos[1].videoOwnerChannelTitle
            title == skipped[1].title
            left == ParenSpans(title)
            expected == SpansToKeep(TitleSource(raw))
        IN /\ raw = "Artist Name - Song Title (Radio Edit) [Official Video]" =>
                skipped[1].artist = "Artist Name" /\ title = "Song Title (Radio Edit)"
           /\ (raw = "Cool Song [Lyrics]" /\ channel = "SomeArtist - Topic") =>
                skipped[1].artist = "SomeArtist" /\ title = "Cool Song"
           /\ StrFind(title, "[") # 0 =>
                ~StrContains(SubSeq(title, StrFind(title, "["), Len(title)), "]")
           /\ \A k \in 1..Len(left) : HasKeyword(left[k])
           /\ \A k \in 1..Len(expected) : \E m \in 1..Len(left) : left[m] = expected[k]

\* C20: the title derived from a derived title (same channel) is that title
\* again, and clean_title of a cleaned title is that title again.
C20_Idempotent ==
    pc = "renormalized" =>
        /\ skipped[2].title = skipped[1].title
        /\ clean_title(clean_title(skipped[1].raw_title)) = clean_title(skipped[1].raw_title)


\* The songs of main, resolved or waiting in the queue.
Held(list, queue) ==
    {list[i] : i \in 1..Len(list)} \cup {queue[i] : i \in 1..Len(queue)}

\* C21: in the ingestion, review and browser phases a step leaves a Song with
\* a detected_title only if the Song had that title before the step, or the
\* step's lookup succeeded on a response with a usable release date and the
\* title and the year are those of one returned match; and the queue entry
\* a review step decides without a lookup has no detected_title.
C21_DetectedOnlyFromLookup ==
    [][ /\ \A song \in Held(songs', skipped') :
             song.detected_title # None =>
               \/ \E old \in Held(songs, skipped) :
                    /\ old.video_id = song.video_id
                    /\ old.detected_title = song.detected_title
               \/ /\ last_result'.tag = "Ok"
                  /\ ~TransportFailure(last_response')
                  /\ Usable(last_response') # {}
                  /\ \E k \in 1..Len(last_result'.val) :
                       /\ song.detected_title = Some(last_result'.val[k][2])
                       /\ song.release_year = last_result'.val[k][1]
        /\ (pc = "review" /\ rev' = rev + 1 /\ ev'.outcome = "") =>
             skipped'[rev].detected_title = None
      ]_vars

\* A run reaches the browser with one Song resolved by a lookup and one whose
\* year was typed at the review menu.
C21_Witness ==
    /\ pc = "browse"
    /\ Len(songs) = 2
    /\ songs[1].detected_title # None
    /\ songs[2].detected_title = None
    /\ songs[2].release_year = 1980


\* The video ids of a list of songs, in the list's order.
Ids(list) == [i \in 1..Len(list) |-> list[i].video_id]

\* The position in the playlist of the video with this id.
FeedIndex(id) == CHOOSE i \in 1..Len(videos) : videos[i].videoId = id

\* The songs of the list are in the order of their videos in the playlist.
InFeedOrder(list) ==
    \A i, j \in 1..Len(list) :
        i < j => FeedIndex(list[i].video_id) < FeedIndex(list[j].video_id)

\* C22: during ingestion and review the resolved songs and the queue are each
\* in feed order, a step of the review pass leaves the resolved songs and the
\* order of the queue as they are, and the step that ends the pass makes the
\* accepted set the resolved songs followed by the songs of the queue, both
\* in their order.
C22_MergedInOrder ==
    [][ /\ pc' \in {"ingest", "review"} => InFeedOrder(songs') /\ InFeedOrder(skipped')
        /\ (pc = "review" /\ pc' # "browse") =>
             songs' = songs /\ Ids(skipped') = Ids(skipped)
        /\ (pc = "review" /\ pc' = "browse") =>
             /\ Len(songs') = Len(songs) + Len(skipped)
             /\ \A i \in 1..Len(songs) : songs'[i] = songs[i]
             /\ \A i \in 1..Len(skipped) : songs'[Len(songs) + i] = skipped[i]
      ]_vars

\* The pass ends with the second video resolved at ingestion and the first
\* decided in the review: the accepted set has the second video first.
C22_Witness ==
    /\ pc = "browse"
    /\ ev.op = "finish_review"
    /\ Ids(songs) = <<"v2", "v1">>


\* The number of parts the unit separators divide a line into.
FieldCount(line) == Cardinality({i \in 1..Len(line) : CharAt(line, i) = US}) + 1

\* C23: an iteration of the load on a line that does not have seven parts
\* leaves the songs as they are and goes on to the next line; on a line of
\* seven parts it adds one Song at the end of the songs, with the line's
\* video id, and goes on to the next line.
C23_LoadLineByFieldCount ==
    [][ (pc = "load" /\ pos <= Len(file)) =>
          /\ pc' = "load"
          /\ pos' = pos + 1
          /\ IF FieldCount(file[pos]) # 7
             THEN songs' = songs
             ELSE /\ Len(songs') = Len(songs) + 1
                  /\ SubSeq(songs', 1, Len(songs)) = songs
                  /\ songs'[Len(songs')].video_id = split(file[pos], US)[5]
      ]_vars


\* A recording whose release date is present and states no year.
Unparseable(rec) == ~is_null(rec.first_release_date) /\ ~HasUsableDate(rec)

\* What the lookup returned next to the recordings with a usable date: a
\* match with the year of each of them.
UsableReturned ==
    /\ last_result.tag = "Ok"
    /\ \A i \in Usable(last_response) :
         \E k \in 1..Len(last_result.val) :
             last_result.val[k][1] = YearOf(last_response.recordings[i])

\* C24: a lookup whose response is delivered, with artists for every
\* recording and a release date that does not parse for one of them, does not
\* abort, and returns a match for every recording with a usable date.
C24_UnparseableDroppedAlone ==
    (/\ last_result.tag # "None"
     /\ ~TransportFailure(last_response)
     /\ \A i \in 1..Len(last_response.recordings) :
          last_response.recordings[i].artist_credit # <<>>
     /\ \E i \in 1..Len(last_response.recordings) :
          Unparseable(last_response.recordings[i])) =>
        /\ last_result.tag # "Panic"
        /\ Usable(last_response) # {} => UsableReturned


\* The least year among the recordings of a response with a usable date.
MinYear(response) ==
    CHOOSE y \in {YearOf(response.recordings[i]) : i \in Usable(response)} :
        \A i \in Usable(response) : y <= YearOf(response.recordings[i])

\* C25: after an ingestion step whose lookup succeeded, a Song was pushed to
\* songs for the entry; it has the least year among the recordings with a
\* usable date, and its detected title is the canonical title of a recording
\* of that year.
C25_AutoAcceptFirstMatch ==
    (ev.op = "ingest" /\ ev.outcome = "Ok") =>
        /\ pc # "panic"
        /\ LET song == songs[Len(songs)]
           IN /\ song.video_id = LastIngested.videoId
              /\ song.release_year = MinYear(last_response)
              /\ \E i \in Usable(last_response) :
                   /\ YearOf(last_response.recordings[i]) = MinYear(last_response)
                   /\ song.detected_title = Some(CanonicalTitle(last_response.recordings[i]))


\* The place in songs (from 1) of row r of page p: index p * pageSize + r - 1
\* from 0.
RowPlace(r, p, per_page) == p * per_page + r

\* C26: in the browser a row typed within 1..elements_per_page that has a
\* song on the page opens the menu of the song at that place, and a step of
\* that menu leaves the number of songs, every other song, and the selected
\* song's raw_title, video_id and youtube_year as they are; the step that
\* goes back to the page changes no song.
C26_SongMenuFrame ==
    [][ /\ (/\ pc = "browse"
            /\ num' >= 1
            /\ num' <= elements_per_page
            /\ RowPlace(num', page, elements_per_page) <= Len(songs)) =>
               pc' = "song_menu" /\ songs' = songs
        /\ pc = "song_menu" =>
             LET at == RowPlace(num, page, elements_per_page)
             IN /\ at \in 1..Len(songs)
                /\ Len(songs') = Len(songs)
                /\ \A i \in 1..Len(songs) : i # at => songs'[i] = songs[i]
                /\ songs'[at].raw_title = songs[at].raw_title
                /\ songs'[at].video_id = songs[at].video_id
                /\ songs'[at].youtube_year = songs[at].youtube_year
                /\ pc' = "browse" => songs' = songs
      ]_vars

\* On the second page the artist of the selected song was edited.
C26_Witness ==
    /\ pc = "song_menu"
    /\ page = 1
    /\ edits = 1
    /\ songs[RowPlace(num, page, elements_per_page)].artist = "Edited"


\* C27: every Song of main has a release year whose tens and ones digit
\* indices, as the card computes them, are within 0..9, and the card
\* generation that follows the save ends with the cards written.
C27_YearsRenderable ==
    [][ /\ \A song \in Held(songs', skipped') :
             /\ n10(song) \in 0..9
             /\ n1(song) \in 0..9
        /\ pc = "done" => pc' = "exported"
      ]_vars


\* C28: a review step that shows the menu prints as current the place in
\* the queue of the entry under review and as total the length of the
\* queue, and so a current that is at most the total.
C28_ProgressShown ==
    [][ (pc = "review" /\ ev'.op = "review" /\ ev'.menus = 1) =>
          /\ current' = rev
          /\ total_skipped' = Len(skipped)
          /\ current' <= total_skipped'
      ]_vars


\* C29: with no song in the list, a step of the browser leaves the run in the
\* browser or at its normal exit, with page 0 and the list still empty, and
\* the export that follows the exit ends with the (empty) output written.
C29_EmptySetSafe ==
    [][ /\ (songs = <<>> /\ pc = "browse") =>
             /\ pc' \in {"browse", "done"}
             /\ page' = 0
             /\ songs' = <<>>
        /\ (songs = <<>> /\ pc = "done") =>
             /\ pc' = "exported"
             /\ songs' = <<>>
      ]_vars


\* C30: a review pass that is under way ends, with the browser open, unless
\* an answer that decides nothing aborts the run; a step of the pass stays at
\* the entry under review or moves to the next one, leaves the entries
\* before it as they are, and the pass ends only after the last entry.
C30_ReviewTerminates ==
    /\ (pc = "review") ~> (pc = "browse" \/ pc = "panic")
    /\ [][ pc = "review" =>
             /\ pc' = "review" => rev' \in {rev, rev + 1} /\ Len(skipped') = Len(skipped)
             /\ \A i \in 1..(rev - 1) :
                  pc' = "browse" \/ skipped'[i] = skipped[i]
             /\ pc' = "browse" => rev = Len(skipped) + 1 /\ Len(songs') = Len(songs) + Len(skipped)
         ]_vars

\* A pass over two entries ended, the first decided with its upload year and
\* the second with a year typed.
C30_Witness ==
    /\ pc = "browse"
    /\ ev.op = "finish_review"
    /\ Len(songs) = 2
    /\ songs[1].detected_title = None
    /\ songs[1].release_year = songs[1].youtube_year
    /\ songs[2].detected_title = None
    /\ songs[2].release_year = 1980

====
